---- MODULE Spec2Model ----
(***************************************************************************)
(* Model of the speed_reader sample-document pipeline (sampleDocument      *)
(* module): normalisation of a raw text, tokenisation, decomposition of    *)
(* each token into leading / core / trailing and computation of the ORP    *)
(* (optimal recognition point) index of each displayed word.               *)
(*                                                                         *)
(* A string is a sequence of one-character strings.                        *)
(***************************************************************************)
EXTENDS Integers, Sequences, FiniteSets, TLC

\* getSampleDocument: the raw text, the position in the function, its locals
VARIABLES text, pc, fullText, wordText, tokens, parts, words

\* App: the loaded document and the component it renders
VARIABLES doc, view

\* Reader: its state hooks, the hold interval (0 when there is none, else the
\* delta its callback adds), the arrow keys physically held and the last
\* event delivered
VARIABLES currentIndex, isPlaying, wpm, hasStarted, isMinimal, showSettings,
          wpmHold, keysDown, lastEvent

pipeVars == <<text, pc, fullText, wordText, tokens, parts, words>>

readerState ==
  <<currentIndex, isPlaying, wpm, hasStarted, isMinimal, showSettings, wpmHold>>

appVars == <<doc, view, readerState, keysDown, lastEvent>>

vars == <<pipeVars, appVars>>

----------------------------------------------------------------------------
(* Bounds of the explored inputs *)

MaxTokLen == 5
MaxWsLen == 4
MaxSepLen == 5
MaxCoreLen == 15
MaxWords == 2
MaxSteps == 2
MaxWpmDrift == 10

----------------------------------------------------------------------------
(* Character classes of the regular expressions *)

\* [A-Za-z0-9]
Alnum == {"a", "b", "d", "e", "h", "l", "n", "o", "p", "s", "t", "1"}
IsAlnum(c) == c \in Alnum

\* ['-]
IsJoiner(c) == c \in {"'", "-"}

\* \s  (also the set removed by String.prototype.trim)
Space == {" ", "\t", "\n", "\r", "\f"}
IsSpace(c) == c \in Space

\* [ \t]
Blank == {" ", "\t"}

\* \n
Lf == {"\n"}

\* the characters of the explored texts; \S is its non-space part
Alphabet == Alnum \cup Space \cup {"'", "-", ".", "(", ")"}
NonSpace == Alphabet \ Space

Min(a, b) == IF a <= b THEN a ELSE b
Max(a, b) == IF a >= b THEN a ELSE b

\* length of the maximal run of characters of class In starting at s[i]
RECURSIVE RunLen(_, _, _)
RunLen(s, i, In) ==
  IF i > Len(s) \/ s[i] \notin In THEN 0 ELSE 1 + RunLen(s, i + 1, In)

\* s.replace(/C{min,}/g, rep), scanning from position i
RECURSIVE ReplaceRuns(_, _, _, _, _)
ReplaceRuns(s, i, In, min, rep) ==
  IF i > Len(s) THEN <<>>
  ELSE LET k == RunLen(s, i, In)
       IN IF k >= min
          THEN rep \o ReplaceRuns(s, i + k, In, min, rep)
          ELSE <<s[i]>> \o ReplaceRuns(s, i + 1, In, min, rep)

\* s.replace(/\r\n/g, '\n')
RECURSIVE ReplaceCrLf(_, _)
ReplaceCrLf(s, i) ==
  IF i > Len(s) THEN <<>>
  ELSE IF s[i] = "\r" /\ i < Len(s) /\ s[i + 1] = "\n"
       THEN <<"\n">> \o ReplaceCrLf(s, i + 2)
       ELSE <<s[i]>> \o ReplaceCrLf(s, i + 1)

\* s.replace(/\r/g, '\n')
ReplaceCr(s) == [i \in 1..Len(s) |-> IF s[i] = "\r" THEN "\n" ELSE s[i]]

\* String.prototype.trim
RECURSIVE TrimStart(_)
TrimStart(s) ==
  IF s # <<>> /\ IsSpace(Head(s)) THEN TrimStart(Tail(s)) ELSE s

RECURSIVE TrimEnd(_)
TrimEnd(s) ==
  IF s # <<>> /\ IsSpace(s[Len(s)]) THEN TrimEnd(SubSeq(s, 1, Len(s) - 1)) ELSE s

trim(s) == TrimEnd(TrimStart(s))

----------------------------------------------------------------------------
(* Text normaliser and tokeniser *)

\* variant: runs of three or more newlines are not collapsed
normalizeNoCollapse(t) ==
  LET n1 == ReplaceCr(ReplaceCrLf(t, 1))
      n2 == ReplaceRuns(n1, 1, Blank, 1, <<" ">>)
  IN trim(n2)

\* variant: runs of spaces and tabs are removed, not replaced by one space
normalizeDropBlanks(t) ==
  LET n1 == ReplaceCr(ReplaceCrLf(t, 1))
      n2 == ReplaceRuns(n1, 1, Blank, 1, <<>>)
      n3 == ReplaceRuns(n2, 1, Lf, 3, <<"\n", "\n">>)
  IN trim(n3)

normalizePreserveParagraphs(t) ==
  LET n1 == ReplaceCr(ReplaceCrLf(t, 1))
      n2 == ReplaceRuns(n1, 1, Blank, 1, <<" ">>)
      n3 == ReplaceRuns(n2, 1, Lf, 3, <<"\n", "\n">>)
  IN trim(n3)

\* variant: the result is not trimmed
normalizeForWordsNoTrim(t) == ReplaceRuns(t, 1, Space, 1, <<" ">>)

normalizeForWords(t) == trim(ReplaceRuns(t, 1, Space, 1, <<" ">>))

\* text.match(/\S+/g): the matches in order, or null when there is none
RECURSIVE MatchAllNonSpace(_, _)
MatchAllNonSpace(s, i) ==
  IF i > Len(s) THEN <<>>
  ELSE LET k == RunLen(s, i, NonSpace)
       IN IF k >= 1
          THEN <<SubSeq(s, i, i + k - 1)>> \o MatchAllNonSpace(s, i + k)
          ELSE MatchAllNonSpace(s, i + 1)

matchNonSpace(s) ==
  LET m == MatchAllNonSpace(s, 1)
  IN IF m = <<>> THEN [isNull |-> TRUE, items |-> <<>>]
     ELSE [isNull |-> FALSE, items |-> m]

\* text.split(' '): the variant that yields [''] for the empty string
RECURSIVE SplitOnSpace(_, _)
SplitOnSpace(s, cur) ==
  IF s = <<>> THEN <<cur>>
  ELSE IF Head(s) = " " THEN <<cur>> \o SplitOnSpace(Tail(s), <<>>)
       ELSE SplitOnSpace(Tail(s), Append(cur, Head(s)))

tokensFromTextSplit(t) == SplitOnSpace(t, <<>>)

\* variant: text.match(/[A-Za-z0-9]+/g) ?? []
RECURSIVE MatchAllAlnum(_, _)
MatchAllAlnum(s, i) ==
  IF i > Len(s) THEN <<>>
  ELSE LET k == RunLen(s, i, Alnum)
       IN IF k >= 1
          THEN <<SubSeq(s, i, i + k - 1)>> \o MatchAllAlnum(s, i + k)
          ELSE MatchAllAlnum(s, i + 1)

tokensFromTextAlnum(t) == MatchAllAlnum(t, 1)

\* text.match(/\S+/g) ?? []
tokensFromText(t) ==
  LET m == matchNonSpace(t)
  IN IF m.isNull THEN <<>> ELSE m.items

----------------------------------------------------------------------------
\* Word decomposer. WORD_CORE_RE is, anchored at both ends,
\*   group 1:  [^A-Za-z0-9]*
\*   group 2:  [A-Za-z0-9]+ followed by any number of ['-][A-Za-z0-9]+
\*   group 3:  [^A-Za-z0-9]*
\* The matcher is followed by the positions it can stand at after each part
\* of the pattern.

\* group 1, [^A-Za-z0-9]* : the lengths it can take
Group1Ends(tok) == {i \in 0..Len(tok) : \A k \in 1..i : ~IsAlnum(tok[k])}

\* [A-Za-z0-9]+ started after position i : the positions it can end at
AlnumPlusEnds(tok, i) ==
  {j \in (i + 1)..Len(tok) : \A k \in (i + 1)..j : IsAlnum(tok[k])}

\* one more ['-][A-Za-z0-9]+ after any position of S
GroupEnds(tok, S) ==
  UNION {IF j < Len(tok) /\ IsJoiner(tok[j + 1])
         THEN AlnumPlusEnds(tok, j + 1) ELSE {} : j \in S}

\* zero or more such groups
RECURSIVE StarEnds(_, _)
StarEnds(tok, S) ==
  LET T == S \cup GroupEnds(tok, S)
  IN IF T = S THEN S ELSE StarEnds(tok, T)

\* group 2 started after position i : the positions it can end at
CoreEnds(tok, i) == StarEnds(tok, AlnumPlusEnds(tok, i))

\* group 3, [^A-Za-z0-9]* up to the end, started after position j
Group3Matches(tok, j) == \A k \in (j + 1)..Len(tok) : ~IsAlnum(tok[k])

SetMax(S) == CHOOSE x \in S : \A y \in S : y <= x

\* WORD_CORE_RE.exec(token): null, or the three groups of the first match in
\* the matcher's order (every quantifier greedy: longest group 1 first, then
\* longest group 2)
WORD_CORE_RE_exec(tok) ==
  LET starts == {i \in Group1Ends(tok) :
                   \E j \in CoreEnds(tok, i) : Group3Matches(tok, j)}
  IN IF starts = {} THEN [isNull |-> TRUE, g1 |-> <<>>, g2 |-> <<>>, g3 |-> <<>>]
     ELSE LET i == SetMax(starts)
              j == SetMax({e \in CoreEnds(tok, i) : Group3Matches(tok, e)})
          IN [isNull |-> FALSE,
              g1 |-> SubSeq(tok, 1, i),
              g2 |-> SubSeq(tok, i + 1, j),
              g3 |-> SubSeq(tok, j + 1, Len(tok))]

\* variant: the fallback puts the token in leading and leaves the core empty
splitFallbackLeading(token) ==
  LET match == WORD_CORE_RE_exec(token)
  IN IF match.isNull
     THEN [leading |-> token, core |-> <<>>, trailing |-> <<>>]
     ELSE [leading |-> match.g1, core |-> match.g2, trailing |-> match.g3]

\* variant: the trailing group is not returned
splitDropTrailing(token) ==
  LET match == WORD_CORE_RE_exec(token)
  IN IF match.isNull
     THEN [leading |-> <<>>, core |-> token, trailing |-> <<>>]
     ELSE [leading |-> match.g1, core |-> match.g2, trailing |-> <<>>]

\* variant: the core stops at the first apostrophe or hyphen
splitAtJoiner(token) ==
  LET match == WORD_CORE_RE_exec(token)
      n == IF match.isNull THEN 0 ELSE RunLen(match.g2, 1, Alnum)
  IN IF match.isNull
     THEN [leading |-> <<>>, core |-> token, trailing |-> <<>>]
     ELSE [leading |-> match.g1,
           core |-> SubSeq(match.g2, 1, n),
           trailing |-> SubSeq(match.g2, n + 1, Len(match.g2)) \o match.g3]

splitLeadingCoreTrailing(token) ==
  LET match == WORD_CORE_RE_exec(token)
  IN IF match.isNull
     THEN [leading |-> <<>>, core |-> token, trailing |-> <<>>]
     ELSE [leading |-> match.g1, core |-> match.g2, trailing |-> match.g3]

----------------------------------------------------------------------------
(* ORP calculator *)

\* variant: the band boundaries are open on the upper bound
calculateOrpCoreOpen(core) ==
  LET trimmed == trim(core)
      length == Len(trimmed)
  IN IF trimmed = <<>> THEN 0
     ELSE IF length < 1 THEN 0
     ELSE IF length < 5 THEN 1
     ELSE IF length < 9 THEN 2
     ELSE IF length < 13 THEN 3
     ELSE 4

calculateOrpCore(core) ==
  LET trimmed == trim(core)
      length == Len(trimmed)
  IN IF trimmed = <<>> THEN 0
     ELSE IF length <= 1 THEN 0
     ELSE IF length <= 5 THEN 1
     ELSE IF length <= 9 THEN 2
     ELSE IF length <= 13 THEN 3
     ELSE 4

----------------------------------------------------------------------------
(* Word assembler: the callback of tokens.map in processTokens *)

\* variant: a one-based offset, not clamped
callbackLocalsOneBased(raw) ==
  LET p == splitLeadingCoreTrailing(raw)
      orpCore == calculateOrpCore(p.core)
      display == p.leading \o p.core \o p.trailing
  IN [leading |-> p.leading, core |-> p.core, trailing |-> p.trailing,
      orpCore |-> orpCore, display |-> display,
      orpDisplay |-> IF display = <<>> THEN 0 ELSE Len(p.leading) + orpCore + 1]

\* variant: the length of leading is not added to the core offset
callbackLocalsNoLeading(raw) ==
  LET p == splitLeadingCoreTrailing(raw)
      orpCore == calculateOrpCore(p.core)
      display == p.leading \o p.core \o p.trailing
  IN [leading |-> p.leading, core |-> p.core, trailing |-> p.trailing,
      orpCore |-> orpCore, display |-> display,
      orpDisplay |-> IF display = <<>> THEN 0
                     ELSE Max(0, Min(orpCore, Len(display) - 1))]

\* the locals of one call of the callback when it returns
callbackLocals(raw) ==
  LET p == splitLeadingCoreTrailing(raw)
      orpCore == calculateOrpCore(p.core)
      display == p.leading \o p.core \o p.trailing
      orpDisplay0 == Len(p.leading) + orpCore
  IN [leading |-> p.leading, core |-> p.core, trailing |-> p.trailing,
      orpCore |-> orpCore, display |-> display,
      orpDisplay |-> IF display = <<>> THEN 0
                     ELSE Max(0, Min(orpDisplay0, Len(display) - 1))]

\* the WordData the callback returns
WordData(locals) == [word |-> locals.display, orpIndex |-> locals.orpDisplay]

----------------------------------------------------------------------------
(* The raw texts explored in place of SAMPLE_TEXT *)

SeqsUpTo(S, n) == UNION {[1..k -> S] : k \in 0..n}

Run(c, n) == [i \in 1..n |-> c]

\* one token of letters, apostrophes, hyphens and full stops
TokenTexts == SeqsUpTo({"a", "b", "'", "-", "."}, MaxTokLen)

\* letters among every kind of white space
WsTexts == SeqsUpTo({"a", "b", " ", "\t", "\n", "\r", "\f"}, MaxWsLen)

\* the separators put between two paragraphs
Separators == SeqsUpTo({"\n", "\r", " ", "\t"}, MaxSepLen)

\* two one-word paragraphs and what separates them
ParaTexts == {<<"a">> \o sep \o <<"b">> : sep \in Separators}

\* two words of up to MaxCoreLen letters
CoreTexts ==
  {Run("a", m) \o <<" ">> \o Run("b", n) : m \in 0..MaxCoreLen, n \in 0..MaxCoreLen}

Hello == <<"(", "h", "e", "l", "l", "o", ")">>
DontStop == <<"d", "o", "n", "'", "t", " ", "s", "t", "o", "p">>
Dashes == <<"-", "-", "-">>
ParenDotted == <<"(", "a", ".", "b", ")">>
OneShot == <<"'", "o", "n", "e", "-", "s", "h", "o", "t", "'", "s", ".", ")">>
\* one word of each length at which the ORP table changes
Boundaries ==
  Run("a", 1) \o <<" ">> \o Run("a", 2) \o <<" ">> \o Run("a", 5) \o <<" ">> \o
  Run("a", 6) \o <<" ">> \o Run("a", 9) \o <<" ">> \o Run("a", 10) \o <<" ">> \o
  Run("a", 13) \o <<" ">> \o Run("a", 14)

ExampleTexts == {Hello, DontStop, Dashes, ParenDotted, OneShot, Boundaries}

Texts == TokenTexts \cup WsTexts \cup ParaTexts \cup CoreTexts \cup ExampleTexts

----------------------------------------------------------------------------
(* App: the document state and what it renders *)

NoDoc == [isNull |-> TRUE, words |-> <<>>]

\* the responses FileUpload can pass to onLoaded: documents of 0..MaxWords words
Uploads ==
  {[isNull |-> FALSE, words |-> [i \in 1..n |-> [word |-> <<"a">>, orpIndex |-> 0]]] :
     n \in 0..MaxWords}

\* variant: only the absence of a document is tested
AppRenderNoLengthTest(d) == IF d.isNull THEN "FileUpload" ELSE "Reader"

\* !doc || doc.words.length === 0 ? <FileUpload/> : <Reader/>
AppRender(d) ==
  IF d.isNull \/ Len(d.words) = 0 THEN "FileUpload" ELSE "Reader"

----------------------------------------------------------------------------
(* Reader: constants, state hooks and callbacks *)

WPM_MIN == 100
WPM_MAX == 2000
WPM_STEP == 10
WPM_HOLD_STEP == 5
WPM_INITIAL == 300

Event(type, name, handled) == [type |-> type, name |-> name, handled |-> handled]

NoEvent == Event("none", "", FALSE)

\* the values of the state hooks and refs of a Reader that has just mounted
ReaderInitial ==
  /\ currentIndex = 0
  /\ isPlaying = FALSE
  /\ wpm = WPM_INITIAL
  /\ hasStarted = FALSE
  /\ isMinimal = FALSE
  /\ showSettings = FALSE
  /\ wpmHold = 0

\* the Reader unmounts (its cleanup clears the hold interval); the next Reader
\* mounts with the initial values
ReaderUnmount ==
  /\ currentIndex' = 0
  /\ isPlaying' = FALSE
  /\ wpm' = WPM_INITIAL
  /\ hasStarted' = FALSE
  /\ isMinimal' = FALSE
  /\ showSettings' = FALSE
  /\ wpmHold' = 0

\* variant: no clamping
clampValueNone(value, min, max) == value

clampValue(value, min, max) == Min(max, Max(min, value))

adjustWpm(delta) == wpm' = clampValue(wpm + delta, WPM_MIN, WPM_MAX)

\* variant: playback is started, not toggled
togglePlayAlwaysPlay ==
  /\ hasStarted' = TRUE
  /\ isPlaying' = TRUE
  /\ showSettings' = FALSE
  /\ UNCHANGED <<currentIndex, wpm, isMinimal, wpmHold>>

togglePlay ==
  /\ hasStarted' = TRUE
  /\ isPlaying' = ~isPlaying
  /\ showSettings' = FALSE
  /\ UNCHANGED <<currentIndex, wpm, isMinimal, wpmHold>>

openContextPanel ==
  /\ hasStarted' = TRUE
  /\ isMinimal' = FALSE
  /\ isPlaying' = FALSE
  /\ showSettings' = FALSE
  /\ UNCHANGED <<currentIndex, wpm, wpmHold>>

refocusFromContext ==
  /\ hasStarted' = TRUE
  /\ isPlaying' = TRUE
  /\ UNCHANGED <<currentIndex, wpm, isMinimal, showSettings, wpmHold>>

jumpToIndex(index) ==
  /\ hasStarted' = TRUE
  /\ isPlaying' = FALSE
  /\ currentIndex' = index
  /\ UNCHANGED <<wpm, isMinimal, showSettings, wpmHold>>

toggleSettings ==
  /\ showSettings' = ~showSettings
  /\ UNCHANGED <<currentIndex, isPlaying, wpm, hasStarted, isMinimal, wpmHold>>

increaseWPM ==
  /\ adjustWpm(WPM_STEP)
  /\ UNCHANGED <<currentIndex, isPlaying, hasStarted, isMinimal, showSettings, wpmHold>>

decreaseWPM ==
  /\ adjustWpm(-WPM_STEP)
  /\ UNCHANGED <<currentIndex, isPlaying, hasStarted, isMinimal, showSettings, wpmHold>>

startWpmAdjust(delta) ==
  IF wpmHold # 0
  THEN UNCHANGED readerState
  ELSE /\ adjustWpm(delta)
       /\ wpmHold' = delta
       /\ UNCHANGED <<currentIndex, isPlaying, hasStarted, isMinimal, showSettings>>

stopWpmAdjust ==
  /\ wpmHold' = 0
  /\ UNCHANGED <<currentIndex, isPlaying, wpm, hasStarted, isMinimal, showSettings>>

\* variant: playback goes on
stepBackwardKeepPlaying ==
  /\ hasStarted' = TRUE
  /\ currentIndex' = Max(0, currentIndex - 1)
  /\ UNCHANGED <<isPlaying, wpm, isMinimal, showSettings, wpmHold>>

stepBackward ==
  /\ hasStarted' = TRUE
  /\ isPlaying' = FALSE
  /\ currentIndex' = Max(0, currentIndex - 1)
  /\ UNCHANGED <<wpm, isMinimal, showSettings, wpmHold>>

stepForward ==
  /\ hasStarted' = TRUE
  /\ isPlaying' = FALSE
  /\ currentIndex' = Min(Len(doc.words) - 1, currentIndex + 1)
  /\ UNCHANGED <<wpm, isMinimal, showSettings, wpmHold>>

\* variant: the speed is reset as well
resetWithWpm ==
  /\ isPlaying' = FALSE
  /\ currentIndex' = 0
  /\ wpm' = WPM_INITIAL
  /\ UNCHANGED <<hasStarted, isMinimal, showSettings, wpmHold>>

reset ==
  /\ isPlaying' = FALSE
  /\ currentIndex' = 0
  /\ UNCHANGED <<wpm, hasStarted, isMinimal, showSettings, wpmHold>>

\* setIsMinimal((prev) => !prev), and the settings checkbox
toggleMinimal ==
  /\ isMinimal' = ~isMinimal
  /\ UNCHANGED <<currentIndex, isPlaying, wpm, hasStarted, showSettings, wpmHold>>

\* !isPlaying && hasStarted
showContextPanel == ~isPlaying /\ hasStarted

----------------------------------------------------------------------------
(* useShortcuts: the window's keydown and keyup listeners *)

Keys == {" ", "ArrowUp", "ArrowDown", "ArrowLeft", "ArrowRight", "r", "f", "m", "x"}

HoldKeys == {"ArrowUp", "ArrowDown"}

\* the event targets: the page, and the three kinds of form field the listeners
\* test for
Targets == {"body", "input", "textarea", "select"}

IsFormField(target) == target \in {"input", "textarea", "select"}

\* variant: the target of the event is not tested
handleKeyDownAnyTarget(key, repeat, target, defaultPrevented) ==
  IF defaultPrevented THEN UNCHANGED readerState
  ELSE CASE key = " " -> togglePlay
         [] key = "ArrowUp" ->
              IF ~repeat THEN startWpmAdjust(WPM_HOLD_STEP) ELSE UNCHANGED readerState
         [] key = "ArrowDown" ->
              IF ~repeat THEN startWpmAdjust(-WPM_HOLD_STEP) ELSE UNCHANGED readerState
         [] key = "ArrowLeft" -> stepBackward
         [] key = "ArrowRight" -> stepForward
         [] key \in {"r", "R"} -> reset
         [] key \in {"f", "F"} -> openContextPanel
         [] key \in {"m", "M"} -> toggleMinimal
         [] OTHER -> UNCHANGED readerState

handleKeyDown(key, repeat, target, defaultPrevented) ==
  IF defaultPrevented THEN UNCHANGED readerState
  ELSE IF IsFormField(target) THEN UNCHANGED readerState
  ELSE CASE key = " " -> togglePlay
         [] key = "ArrowUp" ->
              IF ~repeat THEN startWpmAdjust(WPM_HOLD_STEP) ELSE UNCHANGED readerState
         [] key = "ArrowDown" ->
              IF ~repeat THEN startWpmAdjust(-WPM_HOLD_STEP) ELSE UNCHANGED readerState
         [] key = "ArrowLeft" -> stepBackward
         [] key = "ArrowRight" -> stepForward
         [] key \in {"r", "R"} -> reset
         [] key \in {"f", "F"} -> openContextPanel
         [] key \in {"m", "M"} -> toggleMinimal
         [] OTHER -> UNCHANGED readerState

handleKeyUp(key, target, defaultPrevented) ==
  IF defaultPrevented THEN UNCHANGED readerState
  ELSE IF IsFormField(target) THEN UNCHANGED readerState
  ELSE CASE key \in {"ArrowUp", "ArrowDown"} -> stopWpmAdjust
         [] OTHER -> UNCHANGED readerState

\* the listener ran past its two guards
Handled(target, defaultPrevented) == ~defaultPrevented /\ ~IsFormField(target)

----------------------------------------------------------------------------
(* The events of the page *)

\* FileUpload calls onLoaded(data): App.handleLoaded, then App renders
HandleLoaded(data) ==
  /\ view = "FileUpload"
  /\ doc' = data
  /\ view' = AppRender(data)
  /\ lastEvent' = Event("loaded", "", TRUE)
  /\ UNCHANGED <<readerState, keysDown>>
  /\ UNCHANGED pipeVars

\* the Back button calls onBack: App.handleBack, then App renders FileUpload;
\* the Reader unmounts and its cleanup clears the hold interval
HandleBack ==
  /\ view = "Reader"
  /\ ~isMinimal
  /\ doc' = NoDoc
  /\ view' = AppRender(NoDoc)
  /\ ReaderUnmount
  /\ lastEvent' = Event("click", "back", TRUE)
  /\ UNCHANGED keysDown
  /\ UNCHANGED pipeVars

\* a key goes down, or repeats while it is held
KeyDown(key, target, defaultPrevented) ==
  /\ view = "Reader"
  /\ handleKeyDown(key, key \in keysDown, target, defaultPrevented)
  /\ keysDown' = IF key \in HoldKeys THEN keysDown \cup {key} ELSE keysDown
  /\ lastEvent' = Event("keydown", key, Handled(target, defaultPrevented))
  /\ UNCHANGED <<doc, view>>
  /\ UNCHANGED pipeVars

\* a held arrow key is released
KeyUp(key, target, defaultPrevented) ==
  /\ key \in keysDown
  /\ keysDown' = keysDown \ {key}
  /\ IF view = "Reader"
     THEN /\ handleKeyUp(key, target, defaultPrevented)
          /\ lastEvent' = Event("keyup", key, Handled(target, defaultPrevented))
     ELSE UNCHANGED <<readerState, lastEvent>>
  /\ UNCHANGED <<doc, view>>
  /\ UNCHANGED pipeVars

Buttons ==
  {"stepBackward", "togglePlay", "stepForward", "decreaseWPM", "increaseWPM",
   "reset", "fullText", "focus", "panelPlay", "panelConfig", "settingsFocus"}

\* the condition under which a button is rendered
Rendered(button) ==
  CASE button \in {"stepBackward", "togglePlay", "stepForward", "decreaseWPM",
                   "increaseWPM", "reset", "focus"} -> ~isMinimal
    [] button = "fullText" -> TRUE
    [] button \in {"panelPlay", "panelConfig"} -> showContextPanel
    [] button = "settingsFocus" -> showSettings

onClick(button) ==
  CASE button = "stepBackward" -> stepBackward
    [] button = "togglePlay" -> togglePlay
    [] button = "stepForward" -> stepForward
    [] button = "decreaseWPM" -> decreaseWPM
    [] button = "increaseWPM" -> increaseWPM
    [] button = "reset" -> reset
    [] button = "fullText" -> openContextPanel
    [] button = "focus" -> toggleMinimal
    [] button = "panelPlay" -> refocusFromContext
    [] button = "panelConfig" -> toggleSettings
    [] button = "settingsFocus" -> toggleMinimal

Click(button) ==
  /\ view = "Reader"
  /\ Rendered(button)
  /\ onClick(button)
  /\ lastEvent' = Event("click", button, TRUE)
  /\ UNCHANGED <<doc, view, keysDown>>
  /\ UNCHANGED pipeVars

\* a click on a word of the open context panel
ClickWord(index) ==
  /\ view = "Reader"
  /\ showContextPanel
  /\ index >= 0
  /\ index < Len(doc.words)
  /\ jumpToIndex(index)
  /\ lastEvent' = Event("click", "word", TRUE)
  /\ UNCHANGED <<doc, view, keysDown>>
  /\ UNCHANGED pipeVars

\* the callback of the hold interval
HoldTick ==
  /\ view = "Reader"
  /\ wpmHold # 0
  /\ adjustWpm(wpmHold)
  /\ lastEvent' = Event("interval", "", TRUE)
  /\ UNCHANGED <<currentIndex, isPlaying, hasStarted, isMinimal, showSettings, wpmHold>>
  /\ UNCHANGED <<doc, view, keysDown>>
  /\ UNCHANGED pipeVars

\* an animation frame of the RSVP engine in which steps >= 1 word intervals
\* have elapsed
EngineTick(steps) ==
  /\ view = "Reader"
  /\ isPlaying
  /\ Len(doc.words) # 0
  /\ LET last == Len(doc.words) - 1
         next == Min(currentIndex + steps, last)
     IN IF currentIndex >= last
        THEN /\ isPlaying' = FALSE
             /\ UNCHANGED currentIndex
        ELSE /\ currentIndex' = next
             /\ isPlaying' = IF next >= last THEN FALSE ELSE isPlaying
  /\ lastEvent' = Event("frame", "", TRUE)
  /\ UNCHANGED <<wpm, hasStarted, isMinimal, showSettings, wpmHold>>
  /\ UNCHANGED <<doc, view, keysDown>>
  /\ UNCHANGED pipeVars

\* the page when App has mounted: no document, FileUpload shown
AppInit ==
  /\ doc = NoDoc
  /\ view = "FileUpload"
  /\ ReaderInitial
  /\ keysDown = {}
  /\ lastEvent = NoEvent

----------------------------------------------------------------------------
(* getSampleDocument, statement by statement *)

Init ==
  /\ text \in Texts
  /\ pc = "fullText"
  /\ fullText = <<>>
  /\ wordText = <<>>
  /\ tokens = <<>>
  /\ parts = <<>>
  /\ words = <<>>
  /\ AppInit

\* const fullText = normalizePreserveParagraphs(SAMPLE_TEXT)
NormalizeFullText ==
  /\ pc = "fullText"
  /\ fullText' = normalizePreserveParagraphs(text)
  /\ pc' = "wordText"
  /\ UNCHANGED <<text, wordText, tokens, parts, words>>
  /\ UNCHANGED appVars

\* const wordText = normalizeForWords(SAMPLE_TEXT)
NormalizeWordText ==
  /\ pc = "wordText"
  /\ wordText' = normalizeForWords(text)
  /\ pc' = "tokens"
  /\ UNCHANGED <<text, fullText, tokens, parts, words>>
  /\ UNCHANGED appVars

\* tokensFromText(wordText), the argument of processTokens
Tokenize ==
  /\ pc = "tokens"
  /\ tokens' = tokensFromText(wordText)
  /\ pc' = "map"
  /\ UNCHANGED <<text, fullText, wordText, parts, words>>
  /\ UNCHANGED appVars

\* one call of the callback of tokens.map, on the next token
MapToken ==
  /\ pc = "map"
  /\ Len(words) < Len(tokens)
  /\ LET locals == callbackLocals(tokens[Len(words) + 1])
     IN /\ parts' = Append(parts, locals)
        /\ words' = Append(words, WordData(locals))
  /\ UNCHANGED <<text, pc, fullText, wordText, tokens>>
  /\ UNCHANGED appVars

\* tokens.map returns; the document { words, fullText, ... } is returned
ReturnDocument ==
  /\ pc = "map"
  /\ Len(words) = Len(tokens)
  /\ pc' = "done"
  /\ UNCHANGED <<text, fullText, wordText, tokens, parts, words>>
  /\ UNCHANGED appVars

Next ==
  \/ NormalizeFullText
  \/ NormalizeWordText
  \/ Tokenize
  \/ MapToken
  \/ ReturnDocument

Spec == Init /\ [][Next]_vars

----------------------------------------------------------------------------
(* The page: App, Reader and the keyboard; getSampleDocument is not running *)

PageInit ==
  /\ text = <<>>
  /\ pc = "idle"
  /\ fullText = <<>>
  /\ wordText = <<>>
  /\ tokens = <<>>
  /\ parts = <<>>
  /\ words = <<>>
  /\ AppInit

\* the speed operations: the two arrow keys, the two speed buttons and the
\* hold interval, on a document that is loaded and left
WpmNext ==
  \/ \E data \in Uploads : HandleLoaded(data)
  \/ HandleBack
  \/ \E key \in HoldKeys, target \in Targets, prevented \in BOOLEAN :
       KeyDown(key, target, prevented)
  \/ \E key \in HoldKeys, target \in Targets, prevented \in BOOLEAN :
       KeyUp(key, target, prevented)
  \/ \E button \in {"increaseWPM", "decreaseWPM"} : Click(button)
  \/ HoldTick

WpmSpec == PageInit /\ [][WpmNext]_vars

\* every event of the page, the speed kept within MaxWpmDrift of its initial
\* value
WithinDrift(w) ==
  w >= WPM_INITIAL - MaxWpmDrift /\ w <= WPM_INITIAL + MaxWpmDrift

ReaderNext ==
  \/ \E data \in Uploads : HandleLoaded(data)
  \/ HandleBack
  \/ \E key \in Keys, target \in Targets, prevented \in BOOLEAN :
       KeyDown(key, target, prevented) /\ WithinDrift(wpm')
  \/ \E key \in HoldKeys, target \in Targets, prevented \in BOOLEAN :
       KeyUp(key, target, prevented)
  \/ \E button \in Buttons : Click(button) /\ WithinDrift(wpm')
  \/ \E index \in 0..(MaxWords - 1) : ClickWord(index)
  \/ HoldTick /\ WithinDrift(wpm')
  \/ \E steps \in 1..MaxSteps : EngineTick(steps)

ReaderSpec == PageInit /\ [][ReaderNext]_vars

----------------------------------------------------------------------------
(* Properties *)

\* the ORP table of the specification, by trimmed core length
OrpTable(L) ==
  CASE L \in {0, 1} -> 0
    [] L \in 2..5 -> 1
    [] L \in 6..9 -> 2
    [] L \in 10..13 -> 3
    [] L >= 14 -> 4

\* the length of s without its leading and trailing white space
TrimmedLen(s) ==
  LET inner == {k \in 1..Len(s) : ~IsSpace(s[k])}
  IN IF inner = {} THEN 0
     ELSE (CHOOSE b \in inner : \A k \in inner : k <= b)
          - (CHOOSE a \in inner : \A k \in inner : a <= k) + 1

Clamp(x, lo, hi) == IF x < lo THEN lo ELSE IF x > hi THEN hi ELSE x

HasAlnum(s) == \E k \in 1..Len(s) : IsAlnum(s[k])

AllSpace(s) == \A k \in 1..Len(s) : IsSpace(s[k])

\* the maximal non-white-space substrings of s, as pairs of first and last
\* position
MaximalSpans(s) ==
  {ab \in (1..Len(s)) \X (1..Len(s)) :
     /\ ab[1] <= ab[2]
     /\ \A k \in ab[1]..ab[2] : ~IsSpace(s[k])
     /\ ab[1] = 1 \/ IsSpace(s[ab[1] - 1])
     /\ ab[2] = Len(s) \/ IsSpace(s[ab[2] + 1])}

\* the i-th of them from the left
NthSpan(s, i) ==
  CHOOSE ab \in MaximalSpans(s) :
    Cardinality({cd \in MaximalSpans(s) : cd[1] < ab[1]}) = i - 1

\* tok[a..b] is alphanumeric runs joined by single apostrophes or hyphens
IsJoinedRun(tok, a, b) ==
  /\ a <= b
  /\ IsAlnum(tok[a])
  /\ IsAlnum(tok[b])
  /\ \A k \in a..b : IsAlnum(tok[k]) \/ IsJoiner(tok[k])
  /\ \A k \in a..(b - 1) : ~(IsJoiner(tok[k]) /\ IsJoiner(tok[k + 1]))

\* the number of characters c in s
Count(s, c) == Cardinality({k \in 1..Len(s) : s[k] = c})

\* the number of line terminators in s, a CR LF pair counting once
LineBreaks(s) ==
  Cardinality({k \in 1..Len(s) :
     \/ s[k] = "\r"
     \/ s[k] = "\n" /\ (k = 1 \/ s[k - 1] # "\r")})

\* t is two one-word paragraphs with only line terminators, spaces and tabs
\* between them, among them at least one blank line
TwoParagraphs(t) ==
  /\ Len(t) >= 2
  /\ t[1] = "a"
  /\ t[Len(t)] = "b"
  /\ \A k \in 2..(Len(t) - 1) : t[k] \in {"\n", "\r", " ", "\t"}
  /\ LineBreaks(t) >= 2

\* no space or tab stands between two line terminators of t
BlankLinesEmpty(t) ==
  \A i, j, k \in 1..Len(t) :
    (i < k /\ k < j /\ t[i] \in {"\n", "\r"} /\ t[j] \in {"\n", "\r"})
      => t[k] \notin {" ", "\t"}

\* s holds exactly two newlines and they are adjacent
OneDoubleNewline(s) ==
  /\ Count(s, "\n") = 2
  /\ \E k \in 1..(Len(s) - 1) : s[k] = "\n" /\ s[k + 1] = "\n"

\* C1: every WordUnit produced by processTokens has an in-range orpIndex:
\* 0 <= orpIndex <= word.length - 1 when word is non-empty, and orpIndex = 0
\* when word is empty.
C1_OrpIndexInBounds ==
  \A i \in 1..Len(words) :
    IF words[i].word # <<>>
    THEN 0 <= words[i].orpIndex /\ words[i].orpIndex <= Len(words[i].word) - 1
    ELSE words[i].orpIndex = 0

\* a word with leading punctuation whose highlight is its last character
C1_Witness ==
  /\ pc = "done"
  /\ \E i \in 1..Len(words) :
       /\ parts[i].leading # <<>>
       /\ words[i].orpIndex = Len(words[i].word) - 1

\* C2: the parts of every token concatenate to the token, on the match path
\* and on the fallback path, and WordUnit.word equals the token.
C2_Lossless ==
  \A i \in 1..Len(parts) :
    /\ parts[i].leading \o parts[i].core \o parts[i].trailing = tokens[i]
    /\ words[i].word = tokens[i]

\* a token decomposed on the match path into three non-empty parts
C2_WitnessMatch ==
  /\ pc = "done"
  /\ \E i \in 1..Len(parts) :
       /\ parts[i].leading # <<>>
       /\ parts[i].core # <<>>
       /\ parts[i].trailing # <<>>


\* C3: calculateOrpCore maps the trimmed core length L to the table
\* 0,1 -> 0; 2..5 -> 1; 6..9 -> 2; 10..13 -> 3; 14 and more -> 4. It is
\* non-decreasing in L, never exceeds 4, and the lengths 1,2,5,6,9,10,13,14
\* yield 0,1,1,2,2,3,3,4.
C3_OrpTable ==
  /\ \A i \in 1..Len(parts) :
       /\ parts[i].orpCore = OrpTable(TrimmedLen(parts[i].core))
       /\ parts[i].orpCore <= 4
  /\ \A i, j \in 1..Len(parts) :
       TrimmedLen(parts[i].core) <= TrimmedLen(parts[j].core)
         => parts[i].orpCore <= parts[j].orpCore
  /\ (pc = "done" /\ text = Boundaries)
       => [i \in 1..Len(parts) |-> parts[i].orpCore] = <<0, 1, 1, 2, 2, 3, 3, 4>>

\* the words of the eight boundary lengths have all been given their offset
C3_Witness ==
  /\ pc = "done"
  /\ [i \in 1..Len(parts) |-> Len(parts[i].core)] = <<1, 2, 5, 6, 9, 10, 13, 14>>
  /\ parts[8].orpCore = 4
  /\ parts[7].orpCore = 3

\* C4: for the empty text and for a text of white space only, the pipeline
\* yields an empty sequence of tokens and of WordUnits.
C4_EmptyInput ==
  (pc \in {"map", "done"} /\ AllSpace(text)) => (tokens = <<>> /\ words = <<>>)

\* a text of white space only went through the whole pipeline
C4_Witness ==
  /\ pc = "done"
  /\ Len(text) >= 2
  /\ AllSpace(text)
  /\ words = <<>>

\* C5: the WordUnits are, one for one and in order, the maximal
\* non-white-space substrings of normalizeForWords(text).
C5_OneToOneInOrder ==
  pc = "done" =>
    /\ Len(words) = Cardinality(MaximalSpans(wordText))
    /\ \A i \in 1..Len(words) :
         LET ab == NthSpan(wordText, i)
         IN words[i].word = SubSeq(wordText, ab[1], ab[2])

\* a text that normalisation changed, of two different words
C5_Witness ==
  /\ pc = "done"
  /\ text # wordText
  /\ Len(words) = 2
  /\ words[1].word # words[2].word

\* C6: for every token with an alphanumeric character, leading is the
\* maximal run of non-alphanumeric characters at its start and trailing the
\* maximal such run at its end.
C6_LeadingTrailingMaximal ==
  \A i \in 1..Len(parts) :
    HasAlnum(tokens[i]) =>
      LET tok == tokens[i]
          first == CHOOSE a \in 1..Len(tok) :
                     IsAlnum(tok[a]) /\ \A k \in 1..(a - 1) : ~IsAlnum(tok[k])
          last == CHOOSE b \in 1..Len(tok) :
                    IsAlnum(tok[b]) /\ \A k \in (b + 1)..Len(tok) : ~IsAlnum(tok[k])
      IN /\ parts[i].leading = SubSeq(tok, 1, first - 1)
         /\ parts[i].trailing = SubSeq(tok, last + 1, Len(tok))

\* C7: a token of alphanumeric runs joined by single apostrophes or hyphens,
\* with non-alphanumeric characters around it, has the whole joined run as
\* its core; "don't stop" yields the two words "don't" and "stop".
C7_JoinedRunIsCore ==
  /\ \A i \in 1..Len(parts) :
       LET tok == tokens[i]
       IN \A a, b \in 1..Len(tok) :
            ( /\ IsJoinedRun(tok, a, b)
              /\ \A k \in 1..(a - 1) : ~IsAlnum(tok[k])
              /\ \A k \in (b + 1)..Len(tok) : ~IsAlnum(tok[k]) )
            => /\ parts[i].core = SubSeq(tok, a, b)
               /\ parts[i].leading = SubSeq(tok, 1, a - 1)
               /\ parts[i].trailing = SubSeq(tok, b + 1, Len(tok))
  /\ (pc = "done" /\ text = DontStop)
       => [i \in 1..Len(words) |-> words[i].word]
            = <<SubSeq(DontStop, 1, 5), SubSeq(DontStop, 7, 10)>>

\* a core with an apostrophe and a hyphen inside, punctuation on both sides
C7_Witness ==
  /\ pc = "done"
  /\ \E i \in 1..Len(parts) :
       /\ "'" \in {parts[i].core[k] : k \in 1..Len(parts[i].core)}
       /\ "-" \in {parts[i].core[k] : k \in 1..Len(parts[i].core)}
       /\ parts[i].leading # <<>>
       /\ parts[i].trailing # <<>>

\* C8: orpIndex = clamp(leading.length + orpCoreOffset(core), 0,
\* word.length - 1) for every token; "(hello)" has leading "(", core "hello",
\* trailing ")" and orpIndex 2.
C8_AssembledOffset ==
  /\ \A i \in 1..Len(words) :
       words[i].orpIndex =
         Clamp(Len(parts[i].leading) + OrpTable(TrimmedLen(parts[i].core)),
               0, Len(words[i].word) - 1)
  /\ (pc = "done" /\ text = Hello)
       => /\ parts[1].leading = <<"(">>
          /\ parts[1].core = SubSeq(Hello, 2, 6)
          /\ parts[1].trailing = <<")">>
          /\ words = <<[word |-> Hello, orpIndex |-> 2]>>

\* "(hello)" has been assembled
C8_Witness ==
  /\ pc = "done"
  /\ text = Hello
  /\ Len(words) = 1
  /\ words[1].orpIndex = Len(parts[1].leading) + 1

\* C9: a token without any alphanumeric character is decomposed on the
\* fallback path, leading and trailing empty and core the whole token, and
\* gives a WordUnit whose orpIndex is the table offset of the token's length.
C9_PunctuationOnly ==
  /\ \A i \in 1..Len(parts) :
       ~HasAlnum(tokens[i]) =>
         /\ parts[i].leading = <<>>
         /\ parts[i].trailing = <<>>
         /\ parts[i].core = tokens[i]
         /\ words[i].word = tokens[i]
         /\ words[i].orpIndex = OrpTable(Len(tokens[i]))
  /\ pc = "done" => Len(words) = Len(tokens)

\* "---" has become a WordUnit
C9_Witness ==
  /\ pc = "done"
  /\ text = Dashes
  /\ words = <<[word |-> Dashes, orpIndex |-> 1]>>

\* C10 as stated: two paragraphs separated by one or more blank lines, which
\* may hold spaces or tabs, with any line endings, are separated by exactly
\* one double newline in the full text.
C10_AnyBlankLines ==
  (pc # "fullText" /\ TwoParagraphs(text)) => OneDoubleNewline(fullText)

\* C10 as amended: the same when the blank lines are empty; and no full text
\* holds three newlines in a row, or a carriage return.
C10_EmptyBlankLines ==
  pc # "fullText" =>
    /\ (TwoParagraphs(text) /\ BlankLinesEmpty(text))
         => /\ OneDoubleNewline(fullText)
            /\ fullText[1] = "a"
            /\ fullText[Len(fullText)] = "b"
    /\ \A k \in 1..(Len(fullText) - 2) :
         ~(fullText[k] = "\n" /\ fullText[k + 1] = "\n" /\ fullText[k + 2] = "\n")
    /\ Count(fullText, "\r") = 0

\* three line breaks of the three kinds became one double newline
C10_Witness ==
  /\ pc = "done"
  /\ text = <<"a", "\n", "\r", "\n", "\r", "b">>
  /\ fullText = <<"a", "\n", "\n", "b">>

----------------------------------------------------------------------------
(* Properties of the two normalised views *)

IsNonSpaceChar(c) == ~IsSpace(c)

\* the non-white-space characters of s, in order
NonSpaceChars(s) == SelectSeq(s, IsNonSpaceChar)

\* the maximal non-white-space substrings of s, in order
SpanWords(s) ==
  [i \in 1..Cardinality(MaximalSpans(s)) |->
     LET ab == NthSpan(s, i) IN SubSeq(s, ab[1], ab[2])]

\* C11: normalizeForWords returns a string without leading or trailing white
\* space, whose white space is single spaces none next to another, and whose
\* other characters are those of the input in the same order.
C11_WordTextNormalised ==
  pc \notin {"fullText", "wordText"} =>
    /\ wordText # <<>> => (~IsSpace(wordText[1]) /\ ~IsSpace(wordText[Len(wordText)]))
    /\ \A k \in 1..Len(wordText) :
         IsSpace(wordText[k]) =>
           /\ wordText[k] = " "
           /\ k > 1 => ~IsSpace(wordText[k - 1])
    /\ NonSpaceChars(wordText) = NonSpaceChars(text)

\* a text that starts with white space and holds a newline became two words
\* on one line
C11_Witness ==
  /\ pc = "done"
  /\ Len(text) >= 1
  /\ IsSpace(text[1])
  /\ Count(text, "\n") >= 1
  /\ Len(wordText) = 3
  /\ wordText[2] = " "

\* C12: the raw text, its paragraph-preserving view and its word view have
\* the same sequence of maximal non-white-space tokens.
C12_SameTokens ==
  pc = "done" =>
    /\ SpanWords(fullText) = SpanWords(wordText)
    /\ SpanWords(text) = SpanWords(wordText)
    /\ tokens = SpanWords(fullText)

\* two words whose separation differs in the raw text and in both views
C12_Witness ==
  /\ pc = "done"
  /\ Len(tokens) = 2
  /\ fullText # wordText
  /\ fullText # text
  /\ wordText # text

\* C20: the highlighted character of a non-empty token is a character of its
\* core: leading.length <= orpIndex < leading.length + core.length, and the
\* clamp leaves the raw offset leading.length + orpCore as it is.
C20_HighlightInCore ==
  \A i \in 1..Len(words) :
    words[i].word # <<>> =>
      /\ Len(parts[i].leading) <= words[i].orpIndex
      /\ words[i].orpIndex < Len(parts[i].leading) + Len(parts[i].core)
      /\ words[i].orpIndex = Len(parts[i].leading) + parts[i].orpCore

\* a one-letter core behind two punctuation marks and before one
C20_Witness ==
  /\ pc = "done"
  /\ \E i \in 1..Len(parts) :
       /\ Len(parts[i].leading) >= 2
       /\ Len(parts[i].core) = 1
       /\ parts[i].trailing # <<>>
       /\ words[i].orpIndex = Len(parts[i].leading)

----------------------------------------------------------------------------
(* Properties of the Reader and of App *)

KeyEvent(key) == Event("keydown", key, TRUE)

\* C13: after any sequence of speed operations, 100 <= wpm <= 2000.
C13_WpmInRange == wpm >= 100 /\ wpm <= 2000

\* the hold interval has ticked with the speed at its maximum
C13_Witness ==
  /\ view = "Reader"
  /\ lastEvent.type = "interval"
  /\ wpmHold > 0
  /\ wpm = 2000

\* C14: one press of ArrowUp with no arrow key held adds 50 to wpm, one press
\* of ArrowDown takes 50 off, when the result is within 100..2000.
C14_ArrowStepIsFifty ==
  [][ /\ (keysDown = {} /\ wpmHold = 0 /\ wpm + 50 <= 2000
            /\ KeyDown("ArrowUp", "body", FALSE))
          => wpm' = wpm + 50
      /\ (keysDown = {} /\ wpmHold = 0 /\ wpm - 50 >= 100
            /\ KeyDown("ArrowDown", "body", FALSE))
          => wpm' = wpm - 50 ]_vars

C16_StepOneWord ==
  [][ /\ (KeyDown("ArrowLeft", "body", FALSE) \/ Click("stepBackward"))
          => /\ currentIndex' = (IF currentIndex = 0 THEN 0 ELSE currentIndex - 1)
             /\ isPlaying' = FALSE
             /\ wpm' = wpm
      /\ (KeyDown("ArrowRight", "body", FALSE) \/ Click("stepForward"))
          => /\ currentIndex' = (IF currentIndex = Len(doc.words) - 1
                                 THEN currentIndex ELSE currentIndex + 1)
             /\ isPlaying' = FALSE
             /\ wpm' = wpm ]_vars

\* ArrowLeft has stepped back to the first of two words
C16_Witness ==
  /\ lastEvent = KeyEvent("ArrowLeft")
  /\ Len(doc.words) = 2
  /\ currentIndex = 0
  /\ hasStarted
  /\ ~isPlaying

\* C17: R and the Reset button set currentIndex to 0 and isPlaying to false
\* and keep wpm.
C17_Reset ==
  [][ (KeyDown("r", "body", FALSE) \/ Click("reset"))
        => /\ currentIndex' = 0
           /\ isPlaying' = FALSE
           /\ wpm' = wpm ]_vars

\* R has reset a started reading whose speed had been changed
C17_Witness ==
  /\ lastEvent = KeyEvent("r")
  /\ hasStarted
  /\ currentIndex = 0
  /\ ~isPlaying
  /\ wpm # WPM_INITIAL

\* C18: the Reader is shown exactly when a document with a non-empty word
\* list is loaded; Back leaves no document and the upload view.
C18_ReaderIffWords ==
  /\ view = "Reader" <=> (~doc.isNull /\ Len(doc.words) > 0)
  /\ lastEvent = Event("click", "back", TRUE)
       => (doc = NoDoc /\ view = "FileUpload")

\* Back has been clicked in a Reader
C18_Witness ==
  /\ lastEvent = Event("click", "back", TRUE)
  /\ doc.isNull
  /\ view = "FileUpload"

\* C19: once every arrow key has been released, no hold interval is active,
\* whatever the targets and defaultPrevented flags of the key events were.
C19_ReleasedStopsHold ==
  (view = "Reader" /\ keysDown = {}) => wpmHold = 0

\* C21: a keydown or keyup whose target is an input, textarea or select, or
\* whose default was already prevented, changes nothing of the Reader:
\* position, playback, speed, hold interval, focus mode, started flag and
\* settings panel stay as they are.
C21_SuppressedKeysNoEffect ==
  [][ \A key \in Keys :
        \* what every suppressed event of this key leaves behind
        (lastEvent' = Event("keydown", key, FALSE) \/ key \in keysDown \ keysDown')
        => ( (\E target \in Targets, prevented \in BOOLEAN :
                /\ prevented \/ target \in {"input", "textarea", "select"}
                /\ KeyDown(key, target, prevented) \/ KeyUp(key, target, prevented))
             => /\ currentIndex' = currentIndex
                /\ isPlaying' = isPlaying
                /\ wpm' = wpm
                /\ wpmHold' = wpmHold
                /\ isMinimal' = isMinimal
                /\ hasStarted' = hasStarted
                /\ showSettings' = showSettings ) ]_vars

\* a Space keydown has been suppressed while playing with the hold interval
\* running and the speed changed
C21_Witness ==
  /\ lastEvent = Event("keydown", " ", FALSE)
  /\ isPlaying
  /\ wpmHold # 0
  /\ wpm # WPM_INITIAL

====
